---- MODULE Spec2Model ----
(***************************************************************************)
(* Model of the wallpaper rotator: schedule_wallpaper.py (strict config,   *)
(* Task Scheduler registration, one-shot rotation) and set_desktop.py      *)
(* (lenient config, continuous rotation loop).                             *)
(*                                                                         *)
(* Text is modelled as a sequence of one-character strings, so that        *)
(* split(','), strip(), int() and glob suffix matching are computed.       *)
(* An optional config key is a sequence of length 0 (absent) or 1.         *)
(***************************************************************************)
EXTENDS Integers, Sequences, FiniteSets, TLC

VARIABLES
    fs,             \* file system: folder -> set of file names
    fsChanges,      \* number of external file additions/removals so far
    wallpaper,      \* the OS desktop background setting (a path)
    registry,       \* the OS task runner: set of registered tasks
    sched_file,     \* content of config.ini
    sched_pc,       \* position of the schedule_wallpaper.py process
    sched_CONFIG,   \* schedule_wallpaper.CONFIG
    sched_images,   \* local `images` of choose_and_set_wallpaper
    sched_seen,     \* the file system as glob saw it in that call
    sched_ret,      \* outcome of choose_and_set_wallpaper in this run
    sched_calls,    \* paths passed to set_wallpaper in this run
    sched_cmds,     \* schtasks commands issued in this run
    sched_out,      \* notices printed in this run
    sched_exit,     \* exit code of this run (<<>> while running)
    reg0,           \* the task registry as it was when this run started
    runs,           \* number of invocations of schedule_wallpaper.py
    desk_file,      \* content of desktop_wallpaper.config
    desk_pc,        \* position of the set_desktop.py process
    desk_CONFIG,    \* set_desktop.CONFIG
    desk_images,    \* local `images` of main
    desk_startup,   \* the catalog as main computed it at startup
    desk_secs,      \* local `interval_seconds` of main
    desk_trace,     \* set_wallpaper calls, sleeps and notices of main, in order
    desk_exit       \* exit code of set_desktop.py (<<>> while running)

envVars   == <<fs, fsChanges, wallpaper, registry>>
schedVars == <<sched_file, sched_pc, sched_CONFIG, sched_images, sched_seen,
               sched_ret,
               sched_calls, sched_cmds, sched_out, sched_exit, reg0, runs>>
deskVars  == <<desk_file, desk_pc, desk_CONFIG, desk_images, desk_startup,
               desk_secs, desk_trace, desk_exit>>
vars      == <<envVars, schedVars, deskVars>>

-----------------------------------------------------------------------------
(* Bounds *)

MaxRuns      == 2
MaxIter      == 2
MaxFsChanges == 1

-----------------------------------------------------------------------------
(* Text *)

Space == " "
Comma == ","
Dot   == "."
Digits == <<"0", "1", "2", "3", "4", "5", "6", "7", "8", "9">>

IsDigit(c)  == \E d \in 1..10 : Digits[d] = c
DigitVal(c) == (CHOOSE d \in 1..10 : Digits[d] = c) - 1

RECURSIVE lstrip(_)
lstrip(s) == IF s # <<>> /\ Head(s) = Space THEN lstrip(Tail(s)) ELSE s

RECURSIVE rstrip(_)
rstrip(s) == IF s # <<>> /\ s[Len(s)] = Space
             THEN rstrip(SubSeq(s, 1, Len(s) - 1)) ELSE s

\* str.strip()
strip(s) == rstrip(lstrip(s))

\* str.split(','): "" gives [""], "a," gives ["a", ""]
RECURSIVE split(_)
split(s) ==
    IF \E i \in 1..Len(s) : s[i] = Comma
    THEN LET i == CHOOSE k \in 1..Len(s) :
                      s[k] = Comma /\ \A j \in 1..(k - 1) : s[j] # Comma
         IN  <<SubSeq(s, 1, i - 1)>> \o split(SubSeq(s, i + 1, Len(s)))
    ELSE <<s>>

\* ','.join(list)
RECURSIVE join(_)
join(l) == IF l = <<>> THEN <<>>
           ELSE IF Len(l) = 1 THEN l[1]
           ELSE l[1] \o <<Comma>> \o join(Tail(l))

RECURSIVE digits_value(_)
digits_value(s) == IF s = <<>> THEN 0
                   ELSE digits_value(SubSeq(s, 1, Len(s) - 1)) * 10
                        + DigitVal(s[Len(s)])

\* int(text): surrounding blanks and one sign are accepted, then digits
int_body(s) == LET t == strip(s)
               IN  IF t # <<>> /\ t[1] \in {"-", "+"} THEN Tail(t) ELSE t
int_ok(s)   == LET b == int_body(s)
               IN  b # <<>> /\ \A i \in 1..Len(b) : IsDigit(b[i])
int_val(s)  == LET t == strip(s)
               IN  IF t[1] = "-" THEN 0 - digits_value(int_body(s))
                   ELSE digits_value(int_body(s))

endswith(s, suffix) ==
    /\ Len(s) >= Len(suffix)
    /\ SubSeq(s, Len(s) - Len(suffix) + 1, Len(s)) = suffix

-----------------------------------------------------------------------------
(* Files and folders *)

ProgramDir == "program_dir"
PicsDir    == "pics"
Folders    == {ProgramDir, PicsDir}

Name_a_jpg == <<"a", ".", "j", "p", "g">>
Name_b_png == <<"b", ".", "p", "n", "g">>
Name_c_txt == <<"c", ".", "t", "x", "t">>
DirOrder   == <<Name_a_jpg, Name_b_png, Name_c_txt>>
Names      == {DirOrder[i] : i \in 1..Len(DirOrder)}

NoPath == <<"", <<>>>>

Text_jpg      == <<"j", "p", "g">>
Text_jpeg     == <<"j", "p", "e", "g">>
Text_png      == <<"p", "n", "g">>
Text_bmp      == <<"b", "m", "p">>
Text_jpg_png  == <<"j", "p", "g", ",", " ", "p", "n", "g">>
Text_2        == <<"2">>
Text_x        == <<"x">>
Text_minus1   == <<"-", "1">>

\* glob(os.path.join(folder, "*." + ext)): the entries of folder, in
\* directory order, whose name ends with "." + ext; `*` skips hidden names
glob(files, folder, ext) ==
    LET match(n) == /\ n \in files[folder]
                    /\ n[1] # Dot
                    /\ endswith(n, <<Dot>> \o ext)
        listed   == SelectSeq(DirOrder, match)
    IN  [i \in 1..Len(listed) |-> <<folder, listed[i]>>]

RECURSIVE extend_all(_, _, _)
extend_all(files, folder, exts) ==
    IF exts = <<>> THEN <<>>
    ELSE glob(files, folder, strip(Head(exts)))
         \o extend_all(files, folder, Tail(exts))

\* the catalog: images.extend(glob(...)) for each configured extension
get_image_list(files, config) ==
    extend_all(files, config.image_folder, config.extensions)

random_choice_any_file(images) ==
    {<<images[i][1], n>> : i \in 1..Len(images), n \in Names}

\* random.choice(seq): any element; IndexError on an empty sequence
random_choice(images) == {images[i] : i \in 1..Len(images)}

-----------------------------------------------------------------------------
(* Config files *)

MissingFile ==
    [exists |-> FALSE, parses |-> FALSE, image_folder |-> <<>>,
     python_exe |-> <<>>, interval_minutes |-> <<>>, task_name |-> <<>>,
     extensions |-> <<>>]

\* a file configparser.read() rejects (no section header, duplicate key, ...)
UnparsableFile == [MissingFile EXCEPT !.exists = TRUE]

NoConfig ==
    [image_folder |-> "", python_exe |-> "", interval_minutes |-> 0,
     task_name |-> "", extensions |-> <<>>]

DeskNoConfig ==
    [image_folder |-> "", interval_minutes |-> 0, extensions |-> <<>>]

has(opt) == opt # <<>>
get(opt, fallback) == IF has(opt) THEN opt[1] ELSE fallback

-----------------------------------------------------------------------------
(* The OS: SystemParametersInfo through powershell, schtasks *)

\* subprocess.run(["powershell", ...], check=True): powershell exits 0 with the
\* API having set the wallpaper ("changed") or having returned False
\* ("unchanged"), or it exits non-zero and CalledProcessError is raised
SetWallpaperOutcomes == {"changed", "unchanged", "raised"}

set_wallpaper(current, image_path, outcome) ==
    IF outcome = "changed" THEN image_path ELSE current

SCRIPT_PATH == "schedule_wallpaper.py"

\* schtasks /Query /TN name: a listing on stdout when the task exists; when it
\* does not, the text "ERROR: ..." written to one of the two streams
schtasks_query(reg, name) ==
    IF \E t \in reg : t.name = name
    THEN {[stdout |-> <<"TaskName:", name>>, stderr |-> <<>>,
           answer |-> "listed"]}
    ELSE {[stdout |-> <<"ERROR:", "not found">>, stderr |-> <<>>,
           answer |-> "error_on_stdout"],
          [stdout |-> <<>>, stderr |-> <<"ERROR:", "not found">>,
           answer |-> "error_on_stderr"]}

\* schtasks /Create ... /F: replaces a task of that name
schtasks_create(reg, cmd) ==
    {t \in reg : t.name # cmd.tn}
        \cup {[name |-> cmd.tn, mo |-> cmd.mo, tr |-> cmd.tr]}

-----------------------------------------------------------------------------
(* schedule_wallpaper.py *)

Text_default_extensions ==
    <<"j", "p", "g", ",", "j", "p", "e", "g", ",", "p", "n", "g", ",",
      "b", "m", "p">>

sched_fallback_interval == 30

sched_settings(file) ==
    [image_folder     |-> get(file.image_folder, ""),
     python_exe       |-> get(file.python_exe, ""),
     interval_minutes |-> IF has(file.interval_minutes)
                          THEN int_val(file.interval_minutes[1])
                          ELSE sched_fallback_interval,
     task_name        |-> get(file.task_name, "WallpaperChanger"),
     extensions       |-> split(get(file.extensions, Text_default_extensions))]

\* what the try block of load_config raises on
sched_config_raises(file) ==
    \/ ~file.parses
    \/ ~has(file.image_folder)
    \/ ~has(file.python_exe)
    \/ has(file.interval_minutes) /\ ~int_ok(file.interval_minutes[1])

sched_load_config_lenient(file) ==
    IF ~file.exists \/ sched_config_raises(file)
    THEN [exit |-> FALSE, notice |-> "config_missing",
          settings |-> [NoConfig EXCEPT !.image_folder = ProgramDir,
                                        !.interval_minutes = 30]]
    ELSE [exit |-> FALSE, notice |-> "", settings |-> sched_settings(file)]

\* load_config: sys.exit(1) on a missing or unreadable file
sched_load_config(file) ==
    IF ~file.exists
    THEN [exit |-> TRUE, notice |-> "config_missing", settings |-> NoConfig]
    ELSE IF sched_config_raises(file)
    THEN [exit |-> TRUE, notice |-> "config_error", settings |-> NoConfig]
    ELSE [exit |-> FALSE, notice |-> "", settings |-> sched_settings(file)]

\* module level: CONFIG = load_config()
sched_module_load ==
    /\ sched_pc = "load"
    /\ LET r == sched_load_config(sched_file)
       IN  /\ sched_CONFIG' = r.settings
           /\ sched_out' = IF r.notice = "" THEN sched_out
                           ELSE Append(sched_out, r.notice)
           /\ IF r.exit
              THEN sched_pc' = "exited" /\ sched_exit' = <<1>>
              ELSE sched_pc' = "create_task" /\ sched_exit' = sched_exit
    /\ UNCHANGED <<envVars, deskVars, sched_file, sched_images, sched_seen,
                   sched_ret, sched_calls, sched_cmds, reg0, runs>>

error_in_stdout(result) ==
    \E i \in 1..Len(result.stdout) : result.stdout[i] = "ERROR:"

task_exists_always_recreate(result) == FALSE

\* if "ERROR:" not in result.stdout
task_exists(result) == ~error_in_stdout(result)

QueryCmd(config, result) ==
    [cmd |-> "Query", tn |-> config.task_name, mo |-> 0, tr |-> <<>>,
     answer |-> result.answer]

CreateCmd(config, answer) ==
    [cmd |-> "Create", tn |-> config.task_name,
     mo |-> config.interval_minutes,
     tr |-> <<config.python_exe, SCRIPT_PATH>>, answer |-> answer]

create_task ==
    /\ sched_pc = "create_task"
    /\ \E result \in schtasks_query(registry, sched_CONFIG.task_name) :
         IF task_exists(result)
         THEN /\ sched_cmds' = Append(sched_cmds, QueryCmd(sched_CONFIG, result))
              /\ sched_out' = Append(sched_out, "task_exists")
              /\ registry' = registry
         ELSE \E created \in BOOLEAN :
              LET cmd == CreateCmd(sched_CONFIG,
                                   IF created THEN "created" ELSE "failed")
              IN  /\ sched_cmds' = sched_cmds
                                   \o <<QueryCmd(sched_CONFIG, result), cmd>>
                  /\ sched_out' = Append(sched_out, "task_created")
                  /\ registry' = IF created THEN schtasks_create(registry, cmd)
                                 ELSE registry
    /\ sched_pc' = "choose"
    /\ UNCHANGED <<fs, fsChanges, wallpaper, deskVars, sched_file,
                   sched_CONFIG, sched_images, sched_seen, sched_ret,
                   sched_calls, sched_exit, reg0, runs>>

sched_not_images_never(images) == FALSE

\* if not images
sched_not_images(images) == images = <<>>

sched_exit_code_from_result(ret) == IF ret = "True" THEN 0 ELSE 1

\* the end of the __main__ block: the return value is dropped; an uncaught
\* exception ends the interpreter with code 1
sched_exit_code(ret) == IF ret = "raised" THEN 1 ELSE 0

choose_and_set_wallpaper ==
    /\ sched_pc = "choose"
    /\ LET images == get_image_list(fs, sched_CONFIG)
       IN  /\ sched_images' = images
           /\ sched_seen' = fs
           /\ IF sched_not_images(images)
              THEN /\ sched_out' = Append(sched_out, "no_images")
                   /\ sched_ret' = "False"
                   /\ UNCHANGED <<sched_calls, wallpaper>>
              ELSE IF images = <<>>
              THEN /\ sched_ret' = "raised"
                   /\ UNCHANGED <<sched_out, sched_calls, wallpaper>>
              ELSE \E image \in random_choice(images),
                      outcome \in SetWallpaperOutcomes :
                   /\ sched_calls' = Append(sched_calls,
                          [path |-> image, outcome |-> outcome])
                   /\ wallpaper' = set_wallpaper(wallpaper, image, outcome)
                   /\ IF outcome = "raised"
                      THEN sched_ret' = "raised" /\ sched_out' = sched_out
                      ELSE /\ sched_ret' = "True"
                           /\ sched_out' = Append(sched_out, "set_ok")
    /\ sched_pc' = "exited"
    /\ sched_exit' = <<sched_exit_code(sched_ret')>>
    /\ UNCHANGED <<fs, fsChanges, registry, deskVars, sched_file,
                   sched_CONFIG, sched_cmds, reg0, runs>>

\* the next invocation of the script (by the task runner, or by hand): a new
\* process, with nothing kept from the last one
scheduler_invoke ==
    /\ sched_pc = "exited"
    /\ runs < MaxRuns
    /\ runs' = runs + 1
    /\ sched_pc' = "load"
    /\ sched_CONFIG' = NoConfig
    /\ sched_images' = <<>>
    /\ sched_seen' = fs
    /\ sched_ret' = "none"
    /\ sched_calls' = <<>>
    /\ sched_cmds' = <<>>
    /\ sched_out' = <<>>
    /\ sched_exit' = <<>>
    /\ reg0' = registry
    /\ UNCHANGED <<envVars, deskVars, sched_file>>

-----------------------------------------------------------------------------
(* The environment *)

\* a file is added to or removed from a folder while the programs run
fs_change ==
    /\ fsChanges < MaxFsChanges
    /\ fsChanges' = fsChanges + 1
    /\ \E d \in Folders, n \in Names :
         fs' = [fs EXCEPT ![d] = IF n \in fs[d] THEN fs[d] \ {n}
                                 ELSE fs[d] \cup {n}]
    /\ UNCHANGED <<wallpaper, registry, schedVars, deskVars>>

InitFs == {[d \in Folders |-> IF d = ProgramDir THEN p ELSE q] :
              p \in {{}, {Name_a_jpg}}, q \in SUBSET Names}

InitRegistry ==
    {{}} \cup {{[name |-> n, mo |-> 5, tr |-> <<"python.exe", SCRIPT_PATH>>]} :
                 n \in {"WallpaperChanger", "MyTask"}}

InitEnv ==
    /\ fs \in InitFs
    /\ fsChanges = 0
    /\ wallpaper = NoPath
    /\ registry \in InitRegistry

SchedFiles ==
    {MissingFile, UnparsableFile} \cup
    {[exists |-> TRUE, parses |-> TRUE, image_folder |-> f, python_exe |-> p,
      interval_minutes |-> i, task_name |-> t, extensions |-> e] :
        f \in {<<>>, <<PicsDir>>}, p \in {<<>>, <<"python.exe">>},
        i \in {<<>>, <<Text_2>>, <<Text_x>>}, t \in {<<>>, <<"MyTask">>},
        e \in {<<>>, <<Text_jpg>>, <<Text_jpg_png>>, <<<<>>>>}}

SchedIdle ==
    /\ sched_file = MissingFile
    /\ sched_pc = "idle"
    /\ sched_CONFIG = NoConfig
    /\ sched_images = <<>>
    /\ sched_seen = fs
    /\ sched_ret = "none"
    /\ sched_calls = <<>>
    /\ sched_cmds = <<>>
    /\ sched_out = <<>>
    /\ sched_exit = <<>>
    /\ reg0 = {}
    /\ runs = 0

DeskIdle ==
    /\ desk_file = MissingFile
    /\ desk_pc = "idle"
    /\ desk_CONFIG = DeskNoConfig
    /\ desk_images = <<>>
    /\ desk_startup = <<>>
    /\ desk_secs = 0
    /\ desk_trace = <<>>
    /\ desk_exit = <<>>

SchedInit ==
    /\ InitEnv
    /\ sched_file \in SchedFiles
    /\ sched_pc = "load"
    /\ sched_CONFIG = NoConfig
    /\ sched_images = <<>>
    /\ sched_seen = fs
    /\ sched_ret = "none"
    /\ sched_calls = <<>>
    /\ sched_cmds = <<>>
    /\ sched_out = <<>>
    /\ sched_exit = <<>>
    /\ reg0 = registry
    /\ runs = 1
    /\ DeskIdle

-----------------------------------------------------------------------------
(* set_desktop.py *)

DEFAULT_CONFIG ==
    [image_folder |-> ProgramDir, interval_minutes |-> 30,
     extensions |-> <<Text_jpg, Text_jpeg, Text_png, Text_bmp>>]

desk_settings(file) ==
    [image_folder     |-> get(file.image_folder, DEFAULT_CONFIG.image_folder),
     interval_minutes |-> IF has(file.interval_minutes)
                          THEN int_val(file.interval_minutes[1])
                          ELSE DEFAULT_CONFIG.interval_minutes,
     extensions       |-> split(get(file.extensions,
                                    join(DEFAULT_CONFIG.extensions)))]

\* what the try block of load_config raises on
desk_config_raises(file) ==
    \/ ~file.parses
    \/ has(file.interval_minutes) /\ ~int_ok(file.interval_minutes[1])

desk_load_config_exit_on_malformed(file) ==
    IF ~file.exists
    THEN [exit |-> FALSE, notice |-> "config_missing",
          settings |-> DEFAULT_CONFIG]
    ELSE IF desk_config_raises(file)
    THEN [exit |-> TRUE, notice |-> "config_error", settings |-> DeskNoConfig]
    ELSE [exit |-> FALSE, notice |-> "config_loaded",
          settings |-> desk_settings(file)]

\* load_config: DEFAULT_CONFIG.copy() for a missing or unreadable file
desk_load_config(file) ==
    IF ~file.exists
    THEN [exit |-> FALSE, notice |-> "config_missing",
          settings |-> DEFAULT_CONFIG]
    ELSE IF desk_config_raises(file)
    THEN [exit |-> FALSE, notice |-> "config_error",
          settings |-> DEFAULT_CONFIG]
    ELSE [exit |-> FALSE, notice |-> "config_loaded",
          settings |-> desk_settings(file)]

Ev(ev, path, secs) == [ev |-> ev, path |-> path, secs |-> secs]
Notice(ev) == Ev(ev, NoPath, 0)

\* module level: CONFIG = load_config()
desk_module_load ==
    /\ desk_pc = "load"
    /\ LET r == desk_load_config(desk_file)
       IN  /\ desk_CONFIG' = r.settings
           /\ desk_trace' = Append(desk_trace, Notice(r.notice))
           /\ IF r.exit
              THEN desk_pc' = "exited" /\ desk_exit' = <<1>>
              ELSE desk_pc' = "main" /\ desk_exit' = desk_exit
    /\ UNCHANGED <<envVars, schedVars, desk_file, desk_images, desk_startup,
                   desk_secs>>

\* if not images
desk_not_images(images) == images = <<>>

interval_seconds_unconverted(config) == config.interval_minutes

\* interval_seconds = CONFIG['interval_minutes'] * 60
interval_seconds(config) == config.interval_minutes * 60

\* main, up to the try block
main_startup ==
    /\ desk_pc = "main"
    /\ LET images == get_image_list(fs, desk_CONFIG)
       IN  /\ desk_images' = images
           /\ desk_startup' = images
           /\ IF desk_not_images(images)
              THEN /\ desk_trace' = Append(desk_trace, Notice("no_images"))
                   /\ desk_pc' = "exited"
                   /\ desk_exit' = <<0>>
                   /\ desk_secs' = desk_secs
              ELSE /\ desk_secs' = interval_seconds(desk_CONFIG)
                   /\ desk_trace' = Append(desk_trace, Notice("start"))
                   /\ desk_pc' = "loop"
                   /\ desk_exit' = desk_exit
    /\ UNCHANGED <<envVars, schedVars, desk_file, desk_CONFIG>>

applies(trace) == Len(SelectSeq(trace, LAMBDA e : e.ev = "apply"))

loop_images_rescanned(images, files, config) == get_image_list(files, config)

\* the list the loop draws from: the local `images` of main
loop_images(images, files, config) == images

\* while True: image = random.choice(images); set_wallpaper(image) is entered
main_loop_choose ==
    /\ desk_pc = "loop"
    /\ applies(desk_trace) < MaxIter
    /\ LET images == loop_images(desk_images, fs, desk_CONFIG)
       IN  IF images = <<>>
           THEN /\ desk_trace' = Append(desk_trace, Notice("traceback"))
                /\ desk_pc' = "exited"
                /\ desk_exit' = <<1>>
           ELSE \E image \in random_choice(images) :
                /\ desk_trace' = Append(desk_trace, Ev("apply", image, 0))
                /\ desk_pc' = "in_set_wallpaper"
                /\ desk_exit' = desk_exit
    /\ UNCHANGED <<envVars, schedVars, desk_file, desk_CONFIG, desk_images,
                   desk_startup, desk_secs>>

\* set_wallpaper returns or raises; then the confirmation line and
\* time.sleep(interval_seconds), which raises ValueError on a negative length
main_set_wallpaper_done ==
    /\ desk_pc = "in_set_wallpaper"
    /\ LET image == desk_trace[Len(desk_trace)].path
       IN  \E outcome \in SetWallpaperOutcomes :
           /\ wallpaper' = set_wallpaper(wallpaper, image, outcome)
           /\ IF outcome = "raised"
              THEN /\ desk_trace' = Append(desk_trace, Notice("traceback"))
                   /\ desk_pc' = "exited"
                   /\ desk_exit' = <<1>>
              ELSE IF desk_secs < 0
              THEN /\ desk_trace' = desk_trace
                          \o <<Ev("set_ok", image, 0),
                               Ev("sleep", NoPath, desk_secs),
                               Notice("traceback")>>
                   /\ desk_pc' = "exited"
                   /\ desk_exit' = <<1>>
              ELSE /\ desk_trace' = desk_trace
                          \o <<Ev("set_ok", image, 0),
                               Ev("sleep", NoPath, desk_secs)>>
                   /\ desk_pc' = "in_sleep"
                   /\ desk_exit' = desk_exit
    /\ UNCHANGED <<fs, fsChanges, registry, schedVars, desk_file, desk_CONFIG,
                   desk_images, desk_startup, desk_secs>>

\* time.sleep returns
main_sleep_done ==
    /\ desk_pc = "in_sleep"
    /\ desk_pc' = "loop"
    /\ UNCHANGED <<envVars, schedVars, desk_file, desk_CONFIG, desk_images,
                   desk_startup, desk_secs, desk_trace, desk_exit>>

keyboard_interrupt_reraised(trace) ==
    [trace |-> Append(trace, Notice("traceback")), exit |-> <<1>>]

\* except KeyboardInterrupt: the notice, then main returns
keyboard_interrupt_handler(trace) ==
    [trace |-> Append(trace, Notice("shutdown")), exit |-> <<0>>]

\* Ctrl+C while control is inside the try block
main_KeyboardInterrupt ==
    /\ desk_pc \in {"loop", "in_set_wallpaper", "in_sleep"}
    /\ LET h == keyboard_interrupt_handler(desk_trace)
       IN  /\ desk_trace' = h.trace
           /\ desk_exit' = h.exit
    /\ desk_pc' = "exited"
    /\ IF desk_pc = "in_set_wallpaper"
       THEN \E outcome \in {"changed", "unchanged"} :
              wallpaper' = set_wallpaper(wallpaper,
                               desk_trace[Len(desk_trace)].path, outcome)
       ELSE wallpaper' = wallpaper
    /\ UNCHANGED <<fs, fsChanges, registry, schedVars, desk_file, desk_CONFIG,
                   desk_images, desk_startup, desk_secs>>

DeskFiles ==
    {MissingFile, UnparsableFile} \cup
    {[exists |-> TRUE, parses |-> TRUE, image_folder |-> f, python_exe |-> <<>>,
      interval_minutes |-> i, task_name |-> <<>>, extensions |-> e] :
        f \in {<<>>, <<PicsDir>>},
        i \in {<<>>, <<Text_2>>, <<Text_x>>, <<Text_minus1>>},
        e \in {<<>>, <<Text_jpg>>, <<Text_jpg_png>>, <<<<>>>>}}

DeskInit ==
    /\ fs \in InitFs
    /\ fsChanges = 0
    /\ wallpaper = NoPath
    /\ registry = {}
    /\ desk_file \in DeskFiles
    /\ desk_pc = "load"
    /\ desk_CONFIG = DeskNoConfig
    /\ desk_images = <<>>
    /\ desk_startup = <<>>
    /\ desk_secs = 0
    /\ desk_trace = <<>>
    /\ desk_exit = <<>>
    /\ SchedIdle

-----------------------------------------------------------------------------
(* One of the two programs runs, in an environment that changes the folders *)

Init == SchedInit \/ DeskInit

Next ==
    \/ sched_module_load
    \/ create_task
    \/ choose_and_set_wallpaper
    \/ scheduler_invoke
    \/ desk_module_load
    \/ main_startup
    \/ main_loop_choose
    \/ main_set_wallpaper_done
    \/ main_sleep_done
    \/ main_KeyboardInterrupt
    \/ fs_change

Spec == Init /\ [][Next]_vars

-----------------------------------------------------------------------------
(* Properties *)

Elems(seq) == {seq[i] : i \in 1..Len(seq)}
TaskIn(reg, name) == \E t \in reg : t.name = name
Creates(cmds) == SelectSeq(cmds, LAMBDA c : c.cmd = "Create")
Rhythm(trace) == SelectSeq(trace, LAMBDA e : e.ev \in {"apply", "sleep"})
Started(trace) == \E i \in 1..Len(trace) : trace[i].ev = "start"
OneShotDone == sched_ret # "none"
CreateTaskDone == sched_cmds # <<>>
PastStartup == desk_pc \notin {"idle", "load", "main"}

C2_EmptyCatalogNoOp ==
    /\ (OneShotDone /\ get_image_list(sched_seen, sched_CONFIG) = <<>>) =>
          /\ sched_ret = "False"
          /\ sched_calls = <<>>
          /\ sched_out[Len(sched_out)] = "no_images"
    /\ (PastStartup /\ desk_startup = <<>>) =>
          /\ desk_pc = "exited"
          /\ desk_trace[Len(desk_trace)].ev = "no_images"
          /\ \A i \in 1..Len(desk_trace) :
                desk_trace[i].ev \notin {"start", "apply", "sleep"}
          /\ wallpaper = NoPath

C2_Witness ==
    \/ /\ sched_ret = "False"
       /\ runs = 2
       /\ wallpaper # NoPath
    \/ /\ desk_pc = "exited"
       /\ desk_startup = <<>>
       /\ fs[desk_CONFIG.image_folder] # {}

\* C3: when a task named task_name is already registered, create_task issues
\* no create command and leaves the registration, its interval included, as it
\* was, in every invocation.
C3_RegistrationIdempotent ==
    (CreateTaskDone /\ TaskIn(reg0, sched_CONFIG.task_name)) =>
        /\ Creates(sched_cmds) = <<>>
        /\ registry = reg0

C3_Witness ==
    /\ runs = 2
    /\ CreateTaskDone
    /\ registry = reg0
    /\ \E t \in reg0 : /\ t.name = sched_CONFIG.task_name
                       /\ t.mo # sched_CONFIG.interval_minutes

\* C4 as stated: when no task named task_name is registered, create_task
\* issues exactly one create command, for every interval_minutes minutes and
\* under task_name, after which the task is registered; a registered task is
\* never unregistered.
C4_AsStated ==
    /\ (CreateTaskDone /\ ~TaskIn(reg0, sched_CONFIG.task_name)) =>
          /\ Len(Creates(sched_cmds)) = 1
          /\ Creates(sched_cmds)[1].mo = sched_CONFIG.interval_minutes
          /\ Creates(sched_cmds)[1].tn = sched_CONFIG.task_name
          /\ TaskIn(registry, sched_CONFIG.task_name)
    /\ \A t \in reg0 : TaskIn(registry, t.name)

\* C5: without config.ini the run ends with exit code 1 and has queried or
\* created no task and set no wallpaper.
C5_MissingConfigExits ==
    (sched_pc \notin {"idle", "load"} /\ ~sched_file.exists) =>
        /\ sched_pc = "exited"
        /\ sched_exit = <<1>>
        /\ sched_cmds = <<>>
        /\ sched_calls = <<>>
        /\ registry = reg0
        /\ wallpaper = NoPath

C5_Witness ==
    /\ ~sched_file.exists
    /\ sched_pc = "exited"
    /\ runs = 2
    /\ registry # {}

C8_ApplySleepAlternate ==
    LET r == Rhythm(desk_trace)
    IN  \A i \in 1..Len(r) :
            /\ i % 2 = 1 => r[i].ev = "apply"
            /\ i % 2 = 0 =>
                  /\ r[i].ev = "sleep"
                  /\ r[i].secs = desk_CONFIG.interval_minutes * 60
                  /\ desk_file.interval_minutes = <<Text_2>> => r[i].secs = 120
                  /\ desk_file.interval_minutes = <<>> => r[i].secs = 1800

C8_Witness ==
    LET r == Rhythm(desk_trace)
    IN  /\ Len(r) = 4
        /\ r[2].secs = 120
        /\ r[4].secs = 120
        /\ r[1].path # r[3].path

====
